---- MODULE Spec2Model ----
(***************************************************************************)
(* Model of the onvif-to-usd pipeline: main.py sequences the capture phase *)
(* (capture.py), the COLMAP reconstruction phase (photogrammetry.py) and   *)
(* the USD assembly phase (usd_builder.py).  One run of main() is modelled *)
(* from argument parsing to the process exit status.                       *)
(***************************************************************************)
EXTENDS Integers, Sequences, FiniteSets, TLC

\* ------------------------------------------------------------------ bounds
MaxCameras == 1      \* cameras listed in the configuration document
MaxFrames == 1       \* largest configured total_frames of a pipeline run
MaxInterval == 1     \* largest configured frame_interval of a pipeline run
MaxImages == 1       \* most image files in the image directory of a pipeline run
MaxScriptCameras == 2   \* cameras in the configuration of a run of capture.py
MaxScriptFrames == 1    \* largest total_frames configured for a run of capture.py
MaxScriptInterval == 2  \* largest frame_interval configured for a run of capture.py
MaxLoopInterval == 3    \* largest frame_interval of a run of capture.py with one camera
MaxLoopFrames == 2      \* largest total_frames of a run of capture.py with one camera
MaxScriptImages == 4    \* most image files in the image directory of a run of usd_builder.py
MaxStamp == 2           \* distinct modification times of the images of a run of usd_builder.py

\* --------------------------------------------------------- program constants
max_retries == 5     \* CameraCapture.__init__: self.max_retries

VARIABLES
    \* command line (main.parse_args)
    no_capture, no_photogrammetry, no_usd,
    \* the configuration document the run is given (--config, 'config.yaml')
    config_file,
    \* module state of capture.py
    HAS_ONVIF,
    \* main()
    pc, exit_code, phase_log,
    \* CameraCapture
    cameras, total_frames, frame_interval,
    cam, rtsp_uri, frames_captured, frame_count, retry_count, cap_open,
    \* history of the running capture_all_cameras call: the cameras whose
    \* address was resolved, the last camera whose strategies all failed
    resolved, last_failed,
    \* history of the current iteration of the camera loop
    discovery_outcome, calls, opencv_success, opencv_exit, ffmpeg_success, persisted,
    ffmpeg_persisted,
    \* history of the running capture_frames_opencv call
    read_failed, retry_steps,
    \* image files written by the capture phase: <<camera name, sequence>> -> writes
    disk,
    \* ColmapWrapper
    help_log, stage_log, stage_ok, fused_preexisting, fused_exists, pipeline_result,
    \* what the run has put into the COLMAP workspace, and the outcome of every
    \* subprocess.run made by run_command
    workspace, commands,
    \* UsdSceneBuilder
    builder_point_cloud, build_result, image_count, image_mtime, latest_image, usd_mode,
    scene_doc,
    \* the content of the scene document, and what went wrong in build_scene
    scene, build_fault,
    \* operator interrupts
    kbi_where, kbi_name, kbi_frames, kbi_modified,
    \* the image directory of the command line (args.image_dir), and the
    \* directory each phase object works on: CameraCapture.output_dir,
    \* ColmapWrapper.image_dir, UsdSceneBuilder.image_dir
    args_image_dir, capture_output_dir, colmap_image_dir, builder_image_dir

argVars == <<no_capture, no_photogrammetry, no_usd, config_file, HAS_ONVIF>>
cfgVars == <<cameras, total_frames, frame_interval>>
loopVars == <<frames_captured, frame_count, retry_count, cap_open>>
iterVars == <<resolved, last_failed, discovery_outcome, calls, opencv_success, opencv_exit,
              ffmpeg_success, persisted, ffmpeg_persisted, read_failed, retry_steps>>
capVars == <<cam, rtsp_uri, loopVars, disk, iterVars>>
colVars == <<help_log, stage_log, stage_ok, fused_preexisting, fused_exists, pipeline_result,
             workspace, commands>>
usdVars == <<builder_point_cloud, build_result, image_count, image_mtime, latest_image,
             usd_mode, scene_doc, scene, build_fault>>
kbiSnap == <<kbi_where, kbi_name, kbi_frames>>
kbiVars == <<kbiSnap, kbi_modified>>
dirVars == <<args_image_dir, capture_output_dir, colmap_image_dir, builder_image_dir>>
vars == <<argVars, pc, exit_code, phase_log, cfgVars, capVars, colVars, usdVars, kbiVars,
          dirVars>>

\* ------------------------------------------------------------ configuration
\* A camera entry of the configuration: name "" stands for a missing 'name'
\* key, rtsp_url "" for a missing or empty 'rtsp_url', onvif for the presence
\* of host, onvif_port, username and password.
CameraPool ==
    { [name |-> "A", rtsp_url |-> "rtsp://a", onvif |-> TRUE],
      [name |-> "B", rtsp_url |-> "", onvif |-> TRUE],
      [name |-> "", rtsp_url |-> "rtsp://u", onvif |-> FALSE] }

CameraLists == UNION { [1..n -> CameraPool] : n \in 0..MaxCameras }

ScriptCameraLists == UNION { [1..n -> CameraPool] : n \in 0..MaxScriptCameras }

\* capture.py:60-75: what open and yaml.safe_load make of the document: a
\* mapping, an exception (missing, unreadable or malformed), or None
ConfigOutcomes == {"ok", "unreadable", "empty"}

\* camera.get('name', 'unnamed')
camera_name(c) == IF c.name = "" THEN "unnamed" ELSE c.name

CameraNames == { camera_name(c) : c \in CameraPool }

\* the largest total_frames of any run
MostFrames ==
    CHOOSE n \in {MaxFrames, MaxScriptFrames, MaxLoopFrames} :
        \A m \in {MaxFrames, MaxScriptFrames, MaxLoopFrames} : m <= n

FileKeys == CameraNames \X (0..MostFrames)

EmptyDisk == [k \in FileKeys |-> 0]

\* The document model of a scene document: the declared time range, the time
\* codes of material:binding.timeSamples, the number of Material prims, the
\* number of references to external assets, the geometry prims, and the time
\* codes written, in order, into a rotateXYZ.timeSamples dictionary; the
\* entries <<time code, material>> of material:binding.timeSamples, and the
\* Material prims in the order they are defined, each with the image (numbered
\* from 0 in sorted order) its texture reader samples.
NoScene ==
    [startTimeCode |-> 0, endTimeCode |-> 0, binding_samples |-> {}, materials |-> 0,
     references |-> 0, geometry |-> {}, rotate_samples |-> <<>>, binding_table |-> {},
     material_defs |-> <<>>]

\* ------------------------------------------------------------------ main()
\* faulty variant: the skip flag is not consulted
RunsPhase_always(skip) == TRUE

\* main.py:105,114,132: a phase runs when its skip flag is not set
RunsPhase(skip) == ~skip

AfterRecon == IF RunsPhase(no_usd) THEN "usd_init" ELSE "finish"

AfterCapture == IF RunsPhase(no_photogrammetry) THEN "colmap_init" ELSE AfterRecon

AfterStart == IF RunsPhase(no_capture) THEN "capture_init" ELSE AfterCapture

\* main.py:146
SuccessExit == 0

\* main.py:125,141: a phase reported failure
FailureExit == 1

\* main.py:151-153
ExceptionExit == 1

\* faulty variant: the interrupt handler returns a status of its own
KeyboardInterruptExit_own == FailureExit + 1

\* main.py:148-150
KeyboardInterruptExit == 1

\* capture.py:75: _load_config calls sys.exit(1)
SysExitCode == 1

Init ==
    /\ no_capture \in BOOLEAN
    /\ no_photogrammetry \in BOOLEAN
    /\ no_usd \in BOOLEAN
    /\ config_file \in ConfigOutcomes
    /\ HAS_ONVIF \in BOOLEAN
    /\ pc = "start"
    /\ exit_code = <<>>
    /\ phase_log = <<>>
    /\ cameras = <<>>
    /\ total_frames = 0
    /\ frame_interval = 0
    /\ cam = 0
    /\ rtsp_uri = ""
    /\ frames_captured = 0
    /\ frame_count = 0
    /\ retry_count = 0
    /\ cap_open = FALSE
    /\ resolved = <<>>
    /\ last_failed = 0
    /\ discovery_outcome = "not_tried"
    /\ calls = <<>>
    /\ opencv_success = "none"
    /\ opencv_exit = "none"
    /\ ffmpeg_success = "none"
    /\ persisted = 0
    /\ ffmpeg_persisted = 0
    /\ read_failed = FALSE
    /\ retry_steps = <<>>
    /\ disk = EmptyDisk
    /\ help_log = <<>>
    /\ stage_log = <<>>
    /\ stage_ok = <<>>
    /\ fused_preexisting = FALSE
    /\ fused_exists = FALSE
    /\ pipeline_result = "none"
    /\ workspace = {}
    /\ commands = <<>>
    /\ builder_point_cloud = "unset"
    /\ build_result = "none"
    /\ image_count = <<>>
    /\ image_mtime = <<>>
    /\ latest_image = <<>>
    /\ usd_mode = "unset"
    /\ scene_doc = "none"
    /\ scene = NoScene
    /\ build_fault = "none"
    /\ kbi_where = {}
    /\ kbi_name = ""
    /\ kbi_frames = 0
    /\ kbi_modified = FALSE
    /\ args_image_dir = "unset"
    /\ capture_output_dir = "unset"
    /\ colmap_image_dir = "unset"
    /\ builder_image_dir = "unset"

\* main.py:93-103: parse the arguments, create the directories, enter the
\* first requested phase
main_start ==
    /\ pc = "start"
    /\ pc' = AfterStart
    /\ UNCHANGED <<dirVars, argVars, exit_code, phase_log, cfgVars, capVars, colVars, usdVars, kbiVars>>

\* main.py:145-146
main_finish ==
    /\ pc = "finish"
    /\ pc' = "done"
    /\ exit_code' = <<SuccessExit>>
    /\ UNCHANGED <<dirVars, argVars, phase_log, cfgVars, capVars, colVars, usdVars, kbiVars>>

\* An exception that reaches main.py:151 (or a SystemExit that leaves main):
\* the run ends with the given status and no further phase is entered
main_abort(code) ==
    /\ pc' = "done"
    /\ exit_code' = <<code>>

\* -------------------------------------------------------- capture phase
bool_name(b) == IF b THEN "true" ELSE "false"

\* capture.py:182-184: the locals of capture_frames_opencv, as they are
\* before the first read and once the call has returned
fresh_capture ==
    /\ frames_captured' = 0
    /\ frame_count' = 0
    /\ retry_count' = 0
    /\ read_failed' = FALSE
    /\ retry_steps' = <<>>

\* capture.py:312-317: the locals of one iteration of the camera loop before
\* a strategy was called
fresh_iteration ==
    /\ calls' = <<>>
    /\ opencv_success' = "none"
    /\ opencv_exit' = "none"
    /\ ffmpeg_success' = "none"
    /\ persisted' = 0
    /\ ffmpeg_persisted' = 0

\* capture_all_cameras is left, by return or by an exception: its locals die;
\* a stream handle is released by cap.release() only (capture.py:208, 245)
capture_all_cameras_left ==
    /\ rtsp_uri' = ""
    /\ discovery_outcome' = "not_tried"
    /\ last_failed' = 0
    /\ UNCHANGED cap_open
    /\ fresh_capture
    /\ fresh_iteration

\* main.py:107 with capture.py:45-89: CameraCapture(args.config)
CameraCapture_init ==
    /\ pc = "capture_init"
    /\ phase_log' = Append(phase_log, "CameraCapture")
    /\ \E cfg \in {config_file} :
        \/ /\ cfg = "ok"
           /\ cameras' \in CameraLists
           /\ total_frames' \in 1..MaxFrames
           /\ frame_interval' \in 1..MaxInterval
           /\ pc' = "capture_call"
           /\ UNCHANGED exit_code
        \/ /\ cfg = "unreadable"          \* open or safe_load raises: sys.exit(1)
           /\ main_abort(SysExitCode)
           /\ UNCHANGED cfgVars
        \/ /\ cfg = "empty"               \* safe_load returns None: AttributeError
           /\ main_abort(ExceptionExit)
           /\ UNCHANGED cfgVars
    /\ UNCHANGED <<dirVars, argVars, capVars, colVars, usdVars, kbiVars>>

\* main.py:108 with capture.py:310-312: the call enters the camera loop
capture_all_cameras_call ==
    /\ pc = "capture_call"
    /\ pc' = "cam_next"
    /\ cam' = 1
    /\ phase_log' = Append(phase_log, "capture_all_cameras")
    /\ UNCHANGED <<dirVars, argVars, exit_code, cfgVars, rtsp_uri, loopVars, disk, iterVars,
                   colVars, usdVars, kbiVars>>

DiscoveryOutcomes == {"uri", "no_profiles", "fault", "error"}

\* capture.py:102-113: the ONVIF service is contacted only past both returns
discovery_attempted(camera) == camera.rtsp_url = "" /\ HAS_ONVIF /\ camera.onvif

\* faulty variant: discovery is preferred to the configured address
get_rtsp_uri_discovery_first(camera, discovery) ==
    IF HAS_ONVIF /\ camera.onvif /\ discovery = "uri" THEN "rtsp://onvif"
    ELSE camera.rtsp_url

\* capture.py:91-147
get_rtsp_uri(camera, discovery) ==
    IF camera.rtsp_url # "" THEN camera.rtsp_url
    ELSE IF ~HAS_ONVIF \/ ~camera.onvif THEN ""
    ELSE IF discovery = "uri" THEN "rtsp://onvif"
    ELSE ""

\* faulty variant: a camera without an address is not skipped
skip_camera_never(uri) == FALSE

\* capture.py:319-321: `if not rtsp_uri: continue`
skip_camera(uri) == uri = ""

\* the arguments of one call of a capture strategy
strategy_call(fn) == [fn |-> fn, uri |-> rtsp_uri, name |-> camera_name(cameras[cam])]

\* capture.py:312-321: next camera of the loop, its address resolution
capture_all_cameras_next ==
    /\ pc = "cam_next"
    /\ cam <= Len(cameras)
    /\ resolved' = Append(resolved, cam)
    /\ fresh_iteration
    /\ \E discovery \in DiscoveryOutcomes :
        LET uri == get_rtsp_uri(cameras[cam], discovery) IN
        /\ rtsp_uri' = uri
        /\ discovery_outcome' =
               IF discovery_attempted(cameras[cam]) THEN discovery ELSE "not_tried"
        /\ IF skip_camera(uri)
             THEN /\ cam' = cam + 1
                  /\ pc' = "cam_next"
             ELSE /\ cam' = cam
                  /\ pc' = "ocv_open"
    /\ UNCHANGED <<dirVars, argVars, exit_code, phase_log, cfgVars, loopVars, disk, last_failed,
                   read_failed, retry_steps, colVars, usdVars, kbiVars>>

\* faulty variant: a capture phase that left no frame on disk is an error
capture_fatal_without_frames(d) == d = EmptyDisk

\* main.py:108-109: main() ignores what capture_all_cameras returns, and
\* capture_all_cameras raises nothing for a camera that yielded no frame
capture_fatal(d) == FALSE

\* capture.py:312 exhausted: capture_all_cameras returns (None), its locals die
capture_all_cameras_exit ==
    /\ pc = "cam_next"
    /\ cam > Len(cameras)
    /\ phase_log' = Append(phase_log, "capture_all_cameras_ret")
    /\ capture_all_cameras_left
    /\ UNCHANGED <<dirVars, argVars, cfgVars, cam, disk, resolved, colVars, usdVars, kbiVars>>

\* capture.py:312 exhausted, main.py:109: capture_all_cameras returns to main()
capture_all_cameras_return ==
    /\ capture_all_cameras_exit
    /\ IF capture_fatal(disk)
         THEN main_abort(ExceptionExit)
         ELSE /\ pc' = AfterCapture
              /\ UNCHANGED exit_code

\* capture.py:236,240: the value capture_frames_opencv returns from its loop
opencv_result(n) == n > 0

\* faulty variant: the fallback is tried whatever the first strategy returned
needs_fallback_always(success) == TRUE

\* capture.py:328: `if not opencv_success`
needs_fallback(success) == ~success

\* faulty variant: a camera whose strategies all failed ends the camera loop
failure_ends_loop_abort(success) == ~success

\* capture.py:332-335: the result of the fallback is only logged
failure_ends_loop(success) == FALSE

\* capture.py:244-245 and 325-337: capture_frames_opencv returns `success`
\* (the handle is released, the locals die) and capture_all_cameras goes on
\* to the next camera or to the ffmpeg fallback
opencv_return(success, reason) ==
    /\ cap_open' = FALSE
    /\ fresh_capture
    /\ opencv_success' = bool_name(success)
    /\ opencv_exit' = reason
    /\ IF needs_fallback(success)
         THEN /\ pc' = "ffmpeg"
              /\ UNCHANGED cam
         ELSE /\ pc' = "cam_next"
              /\ cam' = cam + 1

\* capture.py:160-174: the call of strategy (a); open the stream
capture_frames_opencv_open ==
    /\ pc = "ocv_open"
    /\ calls' = Append(calls, strategy_call("opencv"))
    /\ IF rtsp_uri = ""
         THEN opencv_return(FALSE, "no_uri")     \* capture.py:160-162
         ELSE \E opened \in BOOLEAN :
                IF opened
                  THEN /\ pc' = "ocv_opened"
                       /\ cap_open' = TRUE
                       /\ fresh_capture
                       /\ UNCHANGED <<cam, opencv_success, opencv_exit>>
                  ELSE opencv_return(FALSE, "open_failed")      \* capture.py:172-174
    /\ UNCHANGED <<dirVars, argVars, exit_code, phase_log, cfgVars, rtsp_uri, disk, resolved,
                   last_failed, discovery_outcome, persisted, ffmpeg_persisted, ffmpeg_success,
                   colVars, usdVars, kbiVars>>

\* capture.py:176-187: with the stream open, the source rate is read, the
\* counters are set and the try block of the read loop is entered
capture_frames_opencv_try ==
    /\ pc = "ocv_opened"
    /\ pc' = "ocv_loop"
    /\ UNCHANGED <<dirVars, argVars, exit_code, phase_log, cfgVars, capVars, colVars, usdVars, kbiVars>>

ReadOutcomes == {"frame", "fail", "error"}

WriteOutcomes == {"written", "not_written", "error"}

\* the file capture.py:225-226 names
frame_file(name, n) == <<name, n>>

\* cv2.imwrite on a path: one more write of that file
write_file(d, key) == [d EXCEPT ![key] = @ + 1]

\* the file is one of those persisted before the interrupt that the read
\* loop caught (capture.py:238)
kbi_file(key) == kbi_name # "" /\ key[1] = kbi_name /\ key[2] < kbi_frames

\* faulty variant: the loop runs one iteration too many
loop_continues_inclusive(captured, total) == captured <= total

\* capture.py:188: `while frames_captured < total_frames`
loop_continues(captured, total) == captured < total

\* faulty variant: the bound is compared with > instead of >=
retry_limit_reached_late(n) == n > max_retries

\* capture.py:203: `if retry_count >= self.max_retries`
retry_limit_reached(n) == n >= max_retries

\* capture.py:199-216: a failed read
opencv_read_failed(reopened) ==
    /\ IF retry_limit_reached(retry_count + 1)
         THEN opencv_return(opencv_result(frames_captured), "max_retries")
         ELSE IF reopened
         THEN /\ retry_count' = retry_count + 1
              /\ read_failed' = TRUE
              /\ retry_steps' = <<"release", "sleep", "open">>
              /\ UNCHANGED <<pc, cam, cap_open, opencv_success, opencv_exit, frames_captured,
                             frame_count>>
         ELSE opencv_return(opencv_result(frames_captured), "reopen_failed")
    /\ UNCHANGED <<persisted, disk, kbi_modified>>

\* faulty variant: no frame is ever retained
retained_never(count, interval) == FALSE

\* capture.py:223: `if frame_count % frame_interval == 0`
retained(count, interval) == count % interval = 0

\* capture.py:218-233: a successful read
opencv_read_frame(w) ==
    LET key == frame_file(camera_name(cameras[cam]), frames_captured) IN
    IF retained(frame_count + 1, frame_interval) /\ w = "error"
      THEN /\ opencv_return(FALSE, "exception")     \* capture.py:241-243
           /\ UNCHANGED <<persisted, disk, kbi_modified>>
      ELSE /\ retry_count' = 0
           /\ retry_steps' = <<>>
           /\ frame_count' = frame_count + 1
           /\ UNCHANGED <<pc, cam, cap_open, opencv_success, opencv_exit, read_failed>>
           /\ IF retained(frame_count + 1, frame_interval)
                THEN /\ disk' = IF w = "written" THEN write_file(disk, key) ELSE disk
                     /\ persisted' = IF w = "written" THEN persisted + 1 ELSE persisted
                     /\ kbi_modified' = (kbi_modified \/ (w = "written" /\ kbi_file(key)))
                     /\ frames_captured' = frames_captured + 1
                ELSE UNCHANGED <<frames_captured, persisted, disk, kbi_modified>>

\* capture.py:188-233: one iteration of the read loop
capture_frames_opencv_read ==
    /\ pc = "ocv_loop"
    /\ loop_continues(frames_captured, total_frames)
    /\ \/ \E reopened \in BOOLEAN : opencv_read_failed(reopened)
       \/ \E w \in WriteOutcomes :
            /\ ~retained(frame_count + 1, frame_interval) => w = "written"   \* nothing to write
            /\ opencv_read_frame(w)
       \/ /\ opencv_return(FALSE, "exception")   \* cap.read raises: capture.py:241-243
          /\ UNCHANGED <<persisted, disk, kbi_modified>>
    /\ UNCHANGED <<dirVars, argVars, exit_code, phase_log, cfgVars, rtsp_uri, resolved, last_failed,
                   discovery_outcome, calls, ffmpeg_success, ffmpeg_persisted, colVars, usdVars,
                   kbiSnap>>

\* capture.py:188,235-236: the loop condition fails, the function returns
capture_frames_opencv_done ==
    /\ pc = "ocv_loop"
    /\ ~loop_continues(frames_captured, total_frames)
    /\ opencv_return(opencv_result(frames_captured), "target")
    /\ UNCHANGED <<dirVars, argVars, exit_code, phase_log, cfgVars, rtsp_uri, disk, resolved,
                   last_failed, discovery_outcome, calls, persisted, ffmpeg_persisted,
                   ffmpeg_success, colVars, usdVars, kbiVars>>

FfmpegOutcomes == {"rc0", "nonzero", "error"}

\* capture.py:296-308: the value capture_frames_ffmpeg returns
ffmpeg_result(rc) == rc = "rc0"

RECURSIVE ffmpeg_files(_, _, _)
\* the files ffmpeg writes for the pattern of capture.py:268 (numbered from 1)
ffmpeg_files(d, name, n) ==
    IF n = 0 THEN d ELSE ffmpeg_files(write_file(d, frame_file(name, n)), name, n - 1)

\* capture.py:247-308 and 330-335: the call of strategy (b); its result is
\* only logged
capture_frames_ffmpeg ==
    /\ pc = "ffmpeg"
    /\ calls' = Append(calls, strategy_call("ffmpeg"))
    /\ \E rc \in FfmpegOutcomes, n \in 0..total_frames :
        /\ rc = "error" => n = 0
        /\ rtsp_uri = "" => (rc = "error" /\ n = 0)     \* capture.py:258-260
        /\ disk' = ffmpeg_files(disk, camera_name(cameras[cam]), n)
        /\ kbi_modified' = (kbi_modified \/
               \E i \in 1..n : kbi_file(frame_file(camera_name(cameras[cam]), i)))
        /\ ffmpeg_persisted' = n
        /\ ffmpeg_success' = bool_name(ffmpeg_result(rc))
        /\ last_failed' = IF ffmpeg_result(rc) THEN last_failed ELSE cam
        /\ cam' = IF failure_ends_loop(ffmpeg_result(rc)) THEN Len(cameras) + 1 ELSE cam + 1
    /\ pc' = "cam_next"
    /\ UNCHANGED <<dirVars, argVars, exit_code, phase_log, cfgVars, rtsp_uri, loopVars, resolved,
                   discovery_outcome, opencv_success, opencv_exit, persisted, read_failed,
                   retry_steps, colVars, usdVars, kbiSnap>>

\* -------------------------------------------------- reconstruction phase
ToolOutcomes == {"rc0", "nonzero", "not_found"}

\* faulty variant: only a missing executable raises, the exit status is ignored
check_raises_not_found_only(outcome) == outcome = "not_found"

\* photogrammetry.py:80-100: the help invocation raises unless it exits 0
check_raises(outcome) == outcome # "rc0"

\* photogrammetry.py:69-74: the directories _create_directories makes
WorkspaceDirectories == {"sparse/", "dense/"}

\* main.py:116-120 with photogrammetry.py:34-100: ColmapWrapper(...) creates
\* the workspace directories and runs `colmap help` once.  The workspace is
\* first touched here: it may hold a dense/fused.ply left by an earlier run.
ColmapWrapper_init ==
    /\ pc = "colmap_init"
    /\ phase_log' = Append(phase_log, "ColmapWrapper")
    /\ fused_preexisting' \in BOOLEAN
    /\ fused_exists' = fused_preexisting'
    /\ \/ /\ main_abort(ExceptionExit)           \* _create_directories re-raises
          /\ UNCHANGED <<help_log, workspace>>
       \/ \E outcome \in ToolOutcomes :
            /\ help_log' = Append(help_log, outcome)
            /\ workspace' = workspace \cup WorkspaceDirectories
            /\ IF check_raises(outcome)
                 THEN main_abort(ExceptionExit)
                 ELSE /\ pc' = "run_pipeline"
                      /\ UNCHANGED exit_code
    /\ UNCHANGED <<dirVars, argVars, cfgVars, capVars, stage_log, stage_ok, pipeline_result, commands,
                   usdVars, kbiVars>>

\* main.py:122 with photogrammetry.py:251-260: run_pipeline is called
run_pipeline_call ==
    /\ pc = "run_pipeline"
    /\ pc' = "stage"
    /\ phase_log' = Append(phase_log, "run_pipeline")
    /\ UNCHANGED <<dirVars, argVars, exit_code, cfgVars, capVars, colVars, usdVars, kbiVars>>

\* photogrammetry.py:251-258
steps ==
    << "feature_extraction", "feature_matching", "sparse_reconstruction",
       "image_undistortion", "stereo_matching", "stereo_fusion" >>

CommandOutcomes == {"rc0", "nonzero", "exception"}

\* faulty variant: every exit status counts as success
run_command_status_ignored(outcome) == outcome # "exception"

\* photogrammetry.py:102-137: run_command's classification of the outcome
run_command(outcome) == outcome = "rc0"

\* photogrammetry.py:146-153, 165-169, 181-185, 197-202, 214-218, 231-239:
\* what a step adds to the workspace when its command succeeds
stage_output(name) ==
    CASE name = "feature_extraction" -> "database.db"
      [] name = "feature_matching" -> "database.db matches"
      [] name = "sparse_reconstruction" -> "sparse/0"
      [] name = "image_undistortion" -> "dense/images"
      [] name = "stereo_matching" -> "dense/stereo"
      [] name = "stereo_fusion" -> "dense/fused/"

\* faulty variant: a failing step clears the workspace
workspace_after_rollback(ws, name, ok) ==
    IF ok THEN ws \cup {stage_output(name)} ELSE {}

\* photogrammetry.py:263-266 with 102-137: a step that succeeded has added its
\* output; neither run_command nor the loop removes anything when it failed
workspace_after(ws, name, ok) ==
    IF ok THEN ws \cup {stage_output(name)} ELSE ws

\* photogrammetry.py:263: the steps run in list order
next_stage(log) == Len(log) + 1

\* faulty variant: the loop ignores what a step returns
step_failed_ignored(ok) == FALSE

\* photogrammetry.py:264-266: a step that returns False ends the loop
step_failed(ok) == ~ok

\* faulty variant: a failing step falls through to the output check
failure_result_by_output(ply) == ply

\* photogrammetry.py:266: the value returned at the failing step
failure_result(ply) == FALSE

\* faulty variant: the output file is not checked
verify_output_skipped(ply) == TRUE

\* photogrammetry.py:269-275: the value returned after the last step
verify_output(ply) == ply

\* faulty variant: main() does not inspect what run_pipeline returned
main_after_pipeline_unchecked(success) ==
    /\ pc' = AfterRecon
    /\ UNCHANGED exit_code

\* main.py:122-127: main() after run_pipeline returned `success`
main_after_pipeline(success) ==
    IF success
      THEN /\ pc' = AfterRecon
           /\ UNCHANGED exit_code
      ELSE main_abort(FailureExit)

\* photogrammetry.py:262-275 with main.py:122-127: run_pipeline returns
run_pipeline_return(result) ==
    /\ pipeline_result' = bool_name(result)
    /\ phase_log' = Append(phase_log, "run_pipeline_ret")
    /\ main_after_pipeline(result)

\* photogrammetry.py:263-266 with 139-242: one step of the loop.  The tool
\* invoked by stereo_fusion may or may not leave dense/fused.ply behind;
\* stereo_fusion's own mkdir (photogrammetry.py:231-232) may raise before
\* the tool is invoked.
run_pipeline_step ==
    /\ pc = "stage"
    /\ next_stage(stage_log) <= Len(steps)
    /\ LET name == steps[next_stage(stage_log)] IN
       /\ stage_log' = Append(stage_log, name)
       /\ \/ /\ name = "stereo_fusion"
             /\ main_abort(ExceptionExit)
             /\ UNCHANGED <<stage_ok, fused_exists, pipeline_result, phase_log, workspace,
                            commands>>
          \/ \E outcome \in CommandOutcomes, wrote \in BOOLEAN :
               /\ wrote => name = "stereo_fusion"
               /\ fused_exists' = (fused_exists \/ wrote)
               /\ commands' = Append(commands, outcome)
               /\ stage_ok' = Append(stage_ok, run_command(outcome))
               /\ workspace' = workspace_after(workspace, name, run_command(outcome))
               /\ IF step_failed(run_command(outcome))
                    THEN run_pipeline_return(failure_result(fused_exists'))
                    ELSE UNCHANGED <<pc, exit_code, pipeline_result, phase_log>>
    /\ UNCHANGED <<dirVars, argVars, cfgVars, capVars, help_log, fused_preexisting, usdVars, kbiVars>>

\* photogrammetry.py:268-275: all steps returned True; check the output file
run_pipeline_verify ==
    /\ pc = "stage"
    /\ next_stage(stage_log) > Len(steps)
    /\ run_pipeline_return(verify_output(fused_exists))
    /\ UNCHANGED <<dirVars, argVars, cfgVars, capVars, help_log, stage_log, stage_ok, fused_preexisting,
                   fused_exists, workspace, commands, usdVars, kbiVars>>

\* ------------------------------------------------------------ assembly phase
\* main.py:134 with usd_builder.py:42-61: UsdSceneBuilder(image_dir, output);
\* no point cloud argument is passed
UsdSceneBuilder_init ==
    /\ pc = "usd_init"
    /\ pc' = "build_scene"
    /\ builder_point_cloud' = "None"
    /\ phase_log' = Append(phase_log, "UsdSceneBuilder")
    /\ UNCHANGED <<dirVars, argVars, exit_code, cfgVars, capVars, colVars, build_result, image_count,
                   image_mtime, latest_image,
                   usd_mode, scene_doc, scene, build_fault, kbiVars>>

\* faulty variant: main() does not inspect what build_scene returned
main_after_build_unchecked(success) ==
    /\ pc' = "finish"
    /\ UNCHANGED exit_code

\* main.py:137-145: main() after build_scene returned `success`
main_after_build(success) ==
    IF success
      THEN /\ pc' = "finish"
           /\ UNCHANGED exit_code
      ELSE main_abort(FailureExit)

\* creating the document (create_stage, open), adding plane and material
\* (add_plane, create_material, apply_material_to_mesh) and saving it (Save,
\* write): each may raise
PersistOutcomes == {"ok", "create_failed", "geometry_failed", "save_failed"}

\* usd_builder.py:265-280: add_point_cloud succeeds, or Points.Define raises,
\* or AddReference raises
GeometryOutcomes == {"ok", "define_failed", "reference_failed"}

\* usd_builder.py:72-76 and 296-299: the number of files enumerated, those
\* directly in the image directory or, when there is none, those found
\* recursively
image_files(direct, nested) == IF direct > 0 THEN direct ELSE nested

\* faulty variant: min instead of max
newest_oldest(mtime) ==
    { i \in 0..(Len(mtime) - 1) : \A j \in 0..(Len(mtime) - 1) : mtime[i + 1] <= mtime[j + 1] }

\* usd_builder.py:83: `max(image_files, key=lambda p: p.stat().st_mtime)`: the
\* images (numbered from 0 in sorted order) that no other image is newer than;
\* max returns the one of them the enumeration lists first
newest(mtime) ==
    { i \in 0..(Len(mtime) - 1) : \A j \in 0..(Len(mtime) - 1) : mtime[j + 1] <= mtime[i + 1] }

\* usd_builder.py:63-89: a path, or None (no image, or the enumeration raised)
find_latest_image(direct, nested, glob_ok) ==
    IF glob_ok /\ image_files(direct, nested) > 0 THEN "image" ELSE "None"

\* faulty variant: the missing image is not checked
missing_image_ignored(latest) == FALSE

\* usd_builder.py:289-291: `if not latest_image`
missing_image(latest) == latest = "None"

\* usd_builder.py:286-311: build_scene stops before any document is created
build_scene_stops(direct, nested, glob_ok, has_usd) ==
    \/ missing_image(find_latest_image(direct, nested, glob_ok))
    \/ ~has_usd /\ (~glob_ok \/ image_files(direct, nested) = 0)

\* usd_builder.py:282-501: the value build_scene returns
build_scene_result(direct, nested, glob_ok, has_usd, persist) ==
    ~build_scene_stops(direct, nested, glob_ok, has_usd) /\ persist = "ok"

\* usd_builder.py:313-501: the document build_scene leaves at the output path
build_scene_document(direct, nested, glob_ok, has_usd, persist) ==
    IF build_scene_stops(direct, nested, glob_ok, has_usd) THEN "none"
    ELSE IF persist = "ok" THEN (IF has_usd THEN "usd" ELSE "text")
    ELSE IF persist \in {"geometry_failed", "save_failed"} THEN "incomplete"
    ELSE "none"

\* usd_builder.py:364, 376: the material of frame i
FrameMaterial(i) == <<"FrameMaterial", i>>

\* usd_builder.py:199: the material create_material defines
TexturedMaterial == <<"TexturedMaterial", 0>>

\* usd_builder.py:317-471: the document written without pxr for n image files
text_scene(n) ==
    [startTimeCode |-> 0,
     endTimeCode |-> n - 1,
     binding_samples |-> 0..(n - 1),
     materials |-> n,
     references |-> 0,
     geometry |-> {"ImagePlane", "Cube", "Pyramid", "Sphere", "SyntheticPointCloud"},
     rotate_samples |-> <<0, n - 1>>,
     binding_table |-> { <<i, FrameMaterial(i)>> : i \in 0..(n - 1) },
     material_defs |-> [k \in 1..n |-> [name |-> FrameMaterial(k - 1), texture |-> k - 1]]]

\* usd_builder.py:479: `self.point_cloud and self.point_cloud.exists()`
uses_point_cloud(point_cloud) == point_cloud = "exists"

\* usd_builder.py:99-111 and 476-494: the stage built with pxr
pxr_scene(point_cloud, geometry, latest) ==
    [startTimeCode |-> 1,
     endTimeCode |-> 1,
     binding_samples |-> {},
     materials |-> IF uses_point_cloud(point_cloud) THEN 0 ELSE 1,
     references |-> IF uses_point_cloud(point_cloud) /\ geometry = "ok" THEN 1 ELSE 0,
     geometry |-> IF ~uses_point_cloud(point_cloud) THEN {"plane"}
                  ELSE IF geometry = "define_failed" THEN {}
                  ELSE {"PointCloud"},
     rotate_samples |-> <<>>,
     binding_table |-> {},
     material_defs |-> IF uses_point_cloud(point_cloud) THEN <<>>
                       ELSE <<[name |-> TexturedMaterial, texture |-> latest]>>]

\* usd_builder.py:313-497: the content of the document build_scene completed
build_scene_content(direct, nested, glob_ok, has_usd, persist, point_cloud, geometry, latest) ==
    IF build_scene_document(direct, nested, glob_ok, has_usd, persist) \notin {"usd", "text"}
      THEN NoScene
    ELSE IF has_usd THEN pxr_scene(point_cloud, geometry, latest)
    ELSE text_scene(image_files(direct, nested))

\* usd_builder.py:87-89, 277-280, 309-311, 499-501: the exception build_scene
\* or one of its callees caught, "none" when nothing was raised
build_scene_fault(glob_ok, persist, geometry) ==
    IF ~glob_ok THEN "glob_failed"
    ELSE IF persist # "ok" THEN persist
    ELSE IF geometry # "ok" THEN geometry
    ELSE "none"

\* the image directory: so many .jpg files directly in it, so many only below it
ImageDirs(most) ==
    { d \in [direct : 0..most, nested : 0..most] : d.direct > 0 => d.nested = 0 }

\* What a call of build_scene meets: the .jpg files directly in the image
\* directory and those only below it (consulted when there is none directly),
\* whether the enumeration raises, whether pxr is importable, how creating,
\* filling and saving the document goes (reached when the enumeration works
\* and finds an image; plane and material are made with pxr and without a
\* point cloud), how add_point_cloud goes (called with pxr and an existing
\* point cloud file), the modification time of every enumerated image (in
\* sorted order, drawn from stamps), and which of the newest images max meets
\* first
BuildInputs(most, point_cloud, stamps) ==
    { in \in UNION { [direct : {d.direct}, nested : {d.nested}, glob_ok : BOOLEAN,
                      has_usd : BOOLEAN, persist : PersistOutcomes,
                      geometry : GeometryOutcomes,
                      mtime : [1..image_files(d.direct, d.nested) -> stamps],
                      latest : 0..most] : d \in ImageDirs(most) } :
        /\ IF in.glob_ok /\ in.mtime # <<>>
             THEN in.latest \in newest(in.mtime)
             ELSE in.latest = 0 /\ \A k \in DOMAIN in.mtime : \A t \in stamps : in.mtime[k] <= t
        /\ in.persist # "ok" => in.glob_ok /\ image_files(in.direct, in.nested) > 0
        /\ in.persist = "geometry_failed" => in.has_usd /\ ~uses_point_cloud(point_cloud)
        /\ in.geometry # "ok" =>
              in.has_usd /\ uses_point_cloud(point_cloud) /\ in.persist = "ok" }

\* --point-cloud: not given, a path with no file, a path of an existing file
PointCloudArgs == {"None", "missing", "exists"}

\* what build_scene can meet in a pipeline run, for each point cloud argument;
\* the modification times of the images are not told apart
PipelineInputs == [p \in PointCloudArgs |-> BuildInputs(MaxImages, p, {1})]

\* what build_scene can meet in a run of usd_builder.py
ScriptInputs == [p \in PointCloudArgs |-> BuildInputs(MaxScriptImages, p, 1..MaxStamp)]

\* usd_builder.py:282-501: one call of build_scene
build_scene_call(direct, nested, glob_ok, has_usd, persist, geometry, mtime, latest) ==
    /\ image_count' = <<image_files(direct, nested)>>
    /\ image_mtime' = mtime
    /\ latest_image' = IF find_latest_image(direct, nested, glob_ok) = "None"
                         THEN <<>> ELSE <<latest>>
    /\ usd_mode' = IF has_usd THEN "pxr" ELSE "text"
    /\ scene_doc' = build_scene_document(direct, nested, glob_ok, has_usd, persist)
    /\ scene' = build_scene_content(direct, nested, glob_ok, has_usd, persist,
                                    builder_point_cloud, geometry, latest)
    /\ build_fault' = build_scene_fault(glob_ok, persist, geometry)
    /\ build_result' = bool_name(build_scene_result(direct, nested, glob_ok, has_usd, persist))

\* main.py:135-141 with usd_builder.py:282-501: build_scene returns True or
\* False (it catches every Exception itself)
build_scene ==
    /\ pc = "build_scene"
    /\ \E in \in PipelineInputs[builder_point_cloud] :
        /\ build_scene_call(in.direct, in.nested, in.glob_ok, in.has_usd, in.persist,
                            in.geometry, in.mtime, in.latest)
        /\ main_after_build(build_scene_result(in.direct, in.nested, in.glob_ok, in.has_usd,
                                               in.persist))
    /\ phase_log' = phase_log \o <<"build_scene", "build_scene_ret">>
    /\ UNCHANGED <<dirVars, argVars, cfgVars, capVars, colVars, builder_point_cloud, kbiVars>>

\* ------------------------------------------------------------- interrupts
\* capture.py:238-240: a KeyboardInterrupt raised inside the read loop is
\* caught there; the function returns frames_captured > 0
interrupt_in_opencv_loop ==
    /\ pc = "ocv_loop"
    /\ kbi_where' = kbi_where \cup {"opencv"}
    /\ kbi_name' = camera_name(cameras[cam])
    /\ kbi_frames' = frames_captured
    /\ kbi_modified' = FALSE
    /\ opencv_return(opencv_result(frames_captured), "interrupt")
    /\ UNCHANGED <<dirVars, argVars, exit_code, phase_log, cfgVars, rtsp_uri, disk, resolved,
                   last_failed, discovery_outcome, calls, persisted, ffmpeg_persisted,
                   ffmpeg_success, colVars, usdVars>>

\* main.py:148-150: a KeyboardInterrupt raised anywhere else inside main()
\* is caught by no `except Exception` and reaches main's handler; raised
\* between the open of the stream and the try block of the read loop
\* (capture.py:170-187) it passes no cap.release()
interrupt_in_main ==
    /\ pc \notin {"ocv_loop", "done"}
    /\ kbi_where' = kbi_where \cup {"main"}
    /\ main_abort(KeyboardInterruptExit)
    /\ capture_all_cameras_left
    /\ UNCHANGED <<dirVars, argVars, phase_log, cfgVars, cam, disk, resolved, colVars, usdVars,
                   kbi_name, kbi_frames, kbi_modified>>

Next ==
    \/ main_start
    \/ main_finish
    \/ CameraCapture_init
    \/ capture_all_cameras_call
    \/ capture_all_cameras_next
    \/ capture_all_cameras_return
    \/ capture_frames_opencv_open
    \/ capture_frames_opencv_try
    \/ capture_frames_opencv_read
    \/ capture_frames_opencv_done
    \/ capture_frames_ffmpeg
    \/ ColmapWrapper_init
    \/ run_pipeline_call
    \/ run_pipeline_step
    \/ run_pipeline_verify
    \/ UsdSceneBuilder_init
    \/ build_scene
    \/ interrupt_in_opencv_loop
    \/ interrupt_in_main

Spec == Init /\ [][Next]_vars

\* ------------------------------------------------- capture.py run as a script
\* The scripts take none of main.py's flags and touch no reconstruction
\* workspace: those variables are held at fixed values.  The runs of the
\* scripts are those the operator does not interrupt.
ScriptInit ==
    /\ Init
    /\ ~no_capture
    /\ ~no_photogrammetry
    /\ ~no_usd

\* capture.py:341-343 with 45-89: CameraCapture('config.yaml')
capture_main_init ==
    /\ pc = "start"
    /\ phase_log' = Append(phase_log, "CameraCapture")
    /\ \E cfg \in {config_file} :
        \/ /\ cfg = "ok"
           /\ cameras' \in ScriptCameraLists
           /\ total_frames' \in 1..MaxScriptFrames
           /\ frame_interval' \in 1..MaxScriptInterval
           /\ pc' = "capture_call"
           /\ UNCHANGED exit_code
        \/ /\ cfg = "unreadable"          \* sys.exit(1) leaves main()
           /\ main_abort(SysExitCode)
           /\ UNCHANGED cfgVars
        \/ /\ cfg = "empty"               \* AttributeError, logged at capture.py:348-349
           /\ main_abort(SuccessExit)
           /\ UNCHANGED cfgVars
    /\ UNCHANGED <<dirVars, argVars, capVars, colVars, usdVars, kbiVars>>

\* capture.py:344-345: capture_all_cameras returns, the script ends
capture_main_return ==
    /\ pc = "cam_next"
    /\ cam > Len(cameras)
    /\ phase_log' = Append(phase_log, "capture_all_cameras_ret")
    /\ main_abort(SuccessExit)
    /\ UNCHANGED <<dirVars, argVars, cfgVars, capVars, colVars, usdVars, kbiVars>>

CaptureNext ==
    \/ capture_main_init
    \/ capture_all_cameras_call
    \/ capture_all_cameras_next
    \/ capture_frames_opencv_open
    \/ capture_frames_opencv_try
    \/ capture_frames_opencv_read
    \/ capture_frames_opencv_done
    \/ capture_frames_ffmpeg
    \/ capture_main_return

CaptureSpec == ScriptInit /\ [][CaptureNext]_vars

\* ------------------------ capture.py run as a script on one configured camera
SingleCameraInit ==
    /\ ScriptInit
    /\ config_file = "ok"

\* capture.py:341-343 with 45-89: CameraCapture('config.yaml'), the document
\* lists one camera
single_camera_init ==
    /\ pc = "start"
    /\ phase_log' = Append(phase_log, "CameraCapture")
    /\ cameras' \in [1..1 -> CameraPool]
    /\ total_frames' \in 1..MaxLoopFrames
    /\ frame_interval' \in 1..MaxLoopInterval
    /\ pc' = "capture_call"
    /\ UNCHANGED <<dirVars, argVars, exit_code, capVars, colVars, usdVars, kbiVars>>

SingleCameraNext ==
    \/ single_camera_init
    \/ capture_all_cameras_call
    \/ capture_all_cameras_next
    \/ capture_frames_opencv_open
    \/ capture_frames_opencv_try
    \/ capture_frames_opencv_read
    \/ capture_frames_opencv_done
    \/ capture_frames_ffmpeg
    \/ interrupt_in_opencv_loop
    \/ capture_main_return

SingleCameraSpec == SingleCameraInit /\ [][SingleCameraNext]_vars

\* the same run, given that the interpreter keeps executing: the calls the
\* loop makes (cap.read, time.sleep, cv2.imwrite) return, so a step that can
\* be taken is taken
SingleCameraFairSpec == SingleCameraSpec /\ WF_vars(SingleCameraNext)

\* --------------------------------------------- usd_builder.py run as a script
\* usd_builder.py:534-537 with 42-61: UsdSceneBuilder(image_dir, output, point_cloud)
usd_builder_main_init ==
    /\ pc = "start"
    /\ phase_log' = Append(phase_log, "UsdSceneBuilder")
    /\ \/ /\ builder_point_cloud' \in PointCloudArgs
          /\ pc' = "build_scene"
          /\ UNCHANGED exit_code
       \/ /\ main_abort(SuccessExit)      \* mkdir raises, logged at usd_builder.py:540-541
          /\ UNCHANGED builder_point_cloud
    /\ UNCHANGED <<dirVars, argVars, cfgVars, capVars, colVars, build_result, image_count,
                   image_mtime, latest_image, usd_mode,
                   scene_doc, scene, build_fault, kbiVars>>

\* usd_builder.py:538-539: build_scene is called, what it returns is dropped
usd_builder_main_build ==
    /\ pc = "build_scene"
    /\ \E in \in ScriptInputs[builder_point_cloud] :
        build_scene_call(in.direct, in.nested, in.glob_ok, in.has_usd, in.persist, in.geometry,
                         in.mtime, in.latest)
    /\ phase_log' = phase_log \o <<"build_scene", "build_scene_ret">>
    /\ main_abort(SuccessExit)
    /\ UNCHANGED <<dirVars, argVars, cfgVars, capVars, colVars, builder_point_cloud, kbiVars>>

BuilderNext ==
    \/ usd_builder_main_init
    \/ usd_builder_main_build

BuilderSpec == ScriptInit /\ [][BuilderNext]_vars

\* ------------------- main.py --no-photogrammetry --no-usd on one configured camera
\* the command line skips reconstruction and assembly; the configuration is read
CaptureOnlyInit ==
    /\ Init
    /\ ~no_capture
    /\ no_photogrammetry
    /\ no_usd
    /\ config_file = "ok"

\* main.py:107 with capture.py:45-89: CameraCapture(args.config), the document
\* lists one camera
capture_only_init ==
    /\ pc = "capture_init"
    /\ phase_log' = Append(phase_log, "CameraCapture")
    /\ cameras' \in [1..1 -> CameraPool]
    /\ total_frames' \in 1..MaxLoopFrames
    /\ frame_interval' \in 1..MaxLoopInterval
    /\ pc' = "capture_call"
    /\ UNCHANGED <<dirVars, argVars, exit_code, capVars, colVars, usdVars, kbiVars>>

CaptureOnlyNext ==
    \/ main_start
    \/ main_finish
    \/ capture_only_init
    \/ capture_all_cameras_call
    \/ capture_all_cameras_next
    \/ capture_all_cameras_return
    \/ capture_frames_opencv_open
    \/ capture_frames_opencv_try
    \/ capture_frames_opencv_read
    \/ capture_frames_opencv_done
    \/ capture_frames_ffmpeg
    \/ interrupt_in_opencv_loop
    \/ interrupt_in_main

CaptureOnlySpec == CaptureOnlyInit /\ [][CaptureOnlyNext]_vars

\* ------------------------------------------- the directories of a run of main.py
\* The same run of main() as above, followed for the directory each phase is
\* given; what the phases do inside their directory is left out.
Directories == {"./images", "./frames", "./shots"}

\* --image-dir on the command line, and settings.capture.output_dir in the
\* configuration document: absent, or a directory
DirectorySettings == Directories \cup {"absent"}

\* main.py:68-73: `default='./images'`
parse_image_dir(arg) == IF arg = "absent" THEN "./images" ELSE arg

\* capture.py:85: `self.capture_settings.get('output_dir', './images')`
prepare_output_dir(setting) == IF setting = "absent" THEN "./images" ELSE setting

\* main.py:93-103: parse the arguments, create args.image_dir
directories_main_start ==
    /\ pc = "start"
    /\ \E arg \in DirectorySettings : args_image_dir' = parse_image_dir(arg)
    /\ pc' = AfterStart
    /\ UNCHANGED <<argVars, exit_code, phase_log, cfgVars, capVars, colVars, usdVars, kbiVars,
                   capture_output_dir, colmap_image_dir, builder_image_dir>>

\* main.py:105-109 with capture.py:45-89, 225-228: CameraCapture(args.config)
\* takes its output directory from the configuration; capture_all_cameras
\* writes the frames there
directories_capture ==
    /\ pc = "capture_init"
    /\ \/ /\ config_file = "ok"
          /\ \E setting \in DirectorySettings :
                capture_output_dir' = prepare_output_dir(setting)
          /\ pc' = AfterCapture
          /\ UNCHANGED exit_code
       \/ /\ config_file = "unreadable"
          /\ main_abort(SysExitCode)
          /\ UNCHANGED capture_output_dir
       \/ /\ config_file = "empty"
          /\ main_abort(ExceptionExit)
          /\ UNCHANGED capture_output_dir
    /\ UNCHANGED <<argVars, phase_log, cfgVars, capVars, colVars, usdVars, kbiVars,
                   args_image_dir, colmap_image_dir, builder_image_dir>>

\* main.py:114-127 with photogrammetry.py:50: ColmapWrapper(image_dir=
\* args.image_dir, ...); run_pipeline succeeds or fails
directories_colmap ==
    /\ pc = "colmap_init"
    /\ colmap_image_dir' = args_image_dir
    /\ \/ /\ pc' = AfterRecon
          /\ UNCHANGED exit_code
       \/ main_abort(FailureExit)
    /\ UNCHANGED <<argVars, phase_log, cfgVars, capVars, colVars, usdVars, kbiVars,
                   args_image_dir, capture_output_dir, builder_image_dir>>

\* main.py:132-143 with usd_builder.py:51: UsdSceneBuilder(args.image_dir,
\* args.output); build_scene succeeds or fails
directories_usd ==
    /\ pc = "usd_init"
    /\ builder_image_dir' = args_image_dir
    /\ \/ /\ pc' = "finish"
          /\ UNCHANGED exit_code
       \/ main_abort(FailureExit)
    /\ UNCHANGED <<argVars, phase_log, cfgVars, capVars, colVars, usdVars, kbiVars,
                   args_image_dir, capture_output_dir, colmap_image_dir>>

DirectoriesNext ==
    \/ directories_main_start
    \/ directories_capture
    \/ directories_colmap
    \/ directories_usd
    \/ main_finish

DirectoriesSpec == Init /\ [][DirectoriesNext]_vars

\* ------------------------------------------------------------------ claims
Range(q) == { q[i] : i \in 1..Len(q) }

Logged(e) == \E i \in 1..Len(phase_log) : phase_log[i] = e

NoneLogged(events) == \A i \in 1..Len(phase_log) : phase_log[i] \notin events

IsPrefix(p, q) == Len(p) <= Len(q) /\ \A i \in 1..Len(p) : p[i] = q[i]

Exited == pc = "done"

\* the first stage that reported failure, 0 when none did
FirstFailure ==
    IF \E k \in 1..Len(stage_ok) : ~stage_ok[k]
      THEN CHOOSE k \in 1..Len(stage_ok) : ~stage_ok[k] /\ \A j \in 1..(k - 1) : stage_ok[j]
      ELSE 0

AllStagesOk == Len(stage_ok) = Len(steps) /\ \A k \in 1..Len(stage_ok) : stage_ok[k]

\* C1: run_pipeline invokes the stages in the order of `steps`, each at most
\* once, and when stage k is the first to report failure, exactly stages
\* 1..k have been invoked and run_pipeline has returned failure.
C1_HaltsAtFirstFailure ==
    /\ IsPrefix(stage_log, steps)
    /\ FirstFailure # 0 =>
          /\ stage_log = SubSeq(steps, 1, FirstFailure)
          /\ pipeline_result = "false"

C1_Witness ==
    /\ FirstFailure = 3
    /\ stage_log = SubSeq(steps, 1, 3)
    /\ pipeline_result = "false"

C3_PreexistingOutputDoesNotMask ==
    (fused_preexisting /\ FirstFailure # 0) => pipeline_result = "false"

C3_Witness ==
    /\ fused_preexisting
    /\ fused_exists
    /\ FirstFailure = 5
    /\ pipeline_result = "false"

LaterPhaseEvents == {"run_pipeline", "run_pipeline_ret", "UsdSceneBuilder", "build_scene", "build_scene_ret"}

\* C4: the tool is checked by one help invocation before any stage; when it
\* exits non-zero or is not found, no stage is invoked, run_pipeline reports
\* no stage failure, no later phase is entered and the run exits non-zero.
C4_UnavailableToolIsFatal ==
    /\ Len(help_log) <= 1
    /\ stage_log # <<>> => help_log = <<"rc0">>
    /\ (help_log # <<>> /\ help_log[1] # "rc0") =>
          /\ stage_log = <<>>
          /\ pipeline_result = "none"
          /\ NoneLogged(LaterPhaseEvents)
          /\ Exited
          /\ exit_code # <<SuccessExit>>

C4_Witness ==
    /\ help_log = <<"nonzero">>
    /\ ~no_usd
    /\ Exited
    /\ exit_code = <<ExceptionExit>>

PhaseOrder ==
    << "CameraCapture", "capture_all_cameras", "capture_all_cameras_ret",
       "ColmapWrapper", "run_pipeline", "run_pipeline_ret",
       "UsdSceneBuilder", "build_scene", "build_scene_ret" >>

Rank == [e \in Range(PhaseOrder) |-> CHOOSE i \in 1..Len(PhaseOrder) : PhaseOrder[i] = e]

CaptureEvents == {"CameraCapture", "capture_all_cameras", "capture_all_cameras_ret"}

ReconEvents == {"ColmapWrapper", "run_pipeline", "run_pipeline_ret"}

AssemblyEvents == {"UsdSceneBuilder", "build_scene", "build_scene_ret"}

\* C5: the phases run in the order capture, reconstruct, assemble; a phase
\* whose skip flag is set is neither constructed nor invoked, no phase is
\* constructed or invoked twice, and a phase starts only after every earlier
\* requested phase has returned.
C5_PhasesOrderedAndSkippable ==
    /\ \A i \in 1..(Len(phase_log) - 1) : Rank[phase_log[i]] < Rank[phase_log[i + 1]]
    /\ no_capture => NoneLogged(CaptureEvents)
    /\ no_photogrammetry => NoneLogged(ReconEvents)
    /\ no_usd => NoneLogged(AssemblyEvents)
    /\ Logged("ColmapWrapper") =>
          (no_capture \/ Logged("capture_all_cameras_ret"))
    /\ Logged("UsdSceneBuilder") =>
          /\ no_capture \/ Logged("capture_all_cameras_ret")
          /\ no_photogrammetry \/ Logged("run_pipeline_ret")

C5_Witness ==
    /\ ~no_capture
    /\ no_photogrammetry
    /\ ~no_usd
    /\ phase_log = << "CameraCapture", "capture_all_cameras", "capture_all_cameras_ret",
                      "UsdSceneBuilder", "build_scene", "build_scene_ret" >>

\* C6: when run_pipeline or build_scene returned failure the run has ended
\* with a non-zero status, and after a failed run_pipeline the scene
\* assembler is neither constructed nor invoked.
C6_PhaseFailureIsFatal ==
    /\ pipeline_result = "false" =>
          /\ Exited
          /\ exit_code # <<SuccessExit>>
          /\ NoneLogged(AssemblyEvents)
    /\ build_result = "false" =>
          /\ Exited
          /\ exit_code # <<SuccessExit>>

C6_Witness ==
    /\ ~no_usd
    /\ AllStagesOk
    /\ pipeline_result = "false"
    /\ Exited

\* C7: once capture_all_cameras has been called, a run with reconstruction
\* requested ends without entering the reconstruction phase only when an
\* operator interrupt reached main(); no outcome of the cameras ends it.
C7_CaptureOutcomeNotFatal ==
    (/\ ~no_photogrammetry
     /\ Logged("capture_all_cameras")
     /\ Exited)
        => (Logged("ColmapWrapper") \/ "main" \in kbi_where)

C7_Witness ==
    /\ Len(cameras) >= 1
    /\ disk = EmptyDisk
    /\ Logged("ColmapWrapper")

\* every requested phase returned, and none reported failure
RequestedPhasesCompleted ==
    /\ no_capture \/ Logged("capture_all_cameras_ret")
    /\ no_photogrammetry \/ pipeline_result = "true"
    /\ no_usd \/ build_result = "true"

C9_InterruptedCaptureFails ==
    (Exited /\ "opencv" \in kbi_where /\ kbi_frames >= 1 /\ kbi_frames < total_frames) =>
        /\ ~kbi_modified
        /\ exit_code # <<SuccessExit>>

InIteration ==
    pc \in {"cam_next", "ocv_open", "ocv_opened", "ocv_loop", "ffmpeg"} /\ resolved # <<>>

\* an iteration of the camera loop has ended and the loop has not gone on
IterationDone == pc = "cam_next" /\ resolved # <<>>

\* the camera of the current (or just ended) iteration
IterCamera == cameras[resolved[Len(resolved)]]

\* C11: whatever the reads returned, the frames one capture persists never
\* exceed total_frames: not inside the read loop, not when it has ended, and
\* not over both strategies of a camera unless strategy (a) raised.
C11_PersistedAtMostTotal ==
    /\ persisted <= total_frames
    /\ pc = "ocv_loop" =>
          /\ persisted <= frames_captured
          /\ frames_captured <= total_frames
    /\ (IterationDone /\ opencv_exit # "exception") =>
          persisted + ffmpeg_persisted <= total_frames

C11_Witness ==
    /\ IterationDone
    /\ opencv_exit = "target"
    /\ total_frames = MaxLoopFrames
    /\ persisted = total_frames

\* C12: while no read has failed, the reads made so far have yielded one
\* persisted frame per frame_interval reads, and never more than total_frames.
C12_DecimatedReads ==
    (pc = "ocv_loop" /\ ~read_failed) =>
        /\ persisted = frame_count \div frame_interval
        /\ frames_captured <= total_frames

\* the sequence numbers of the frame files of a camera name
CameraFiles(name) == { i \in 0..MostFrames : disk[frame_file(name, i)] > 0 }

\* no earlier camera of the configuration has the name of the current one
FirstOfName ==
    \A i \in 1..(Len(resolved) - 1) : camera_name(cameras[i]) # camera_name(IterCamera)

\* C13: at every point of a camera's capture the sequence numbers of its
\* frame files are 0..k-1, k being the number of frames persisted for it.
C13_ContiguousFromZero ==
    (InIteration /\ FirstOfName) =>
        LET files == CameraFiles(camera_name(IterCamera)) IN
        /\ files = 0..(Cardinality(files) - 1)
        /\ Cardinality(files) = persisted + ffmpeg_persisted

\* C14: the retry counter stays below max_retries while the read loop runs;
\* it is positive exactly when the last read failed and was followed by
\* release, back-off delay and a successful reopen, zero after a successful
\* read; every read is made on an open handle; at the max_retries-th
\* consecutive failure the capture of the camera has stopped.
C14_RetryBounded ==
    /\ retry_count < max_retries
    /\ pc = "ocv_loop" =>
          /\ cap_open
          /\ retry_count > 0 <=> retry_steps = <<"release", "sleep", "open">>
          /\ retry_count = 0 <=> retry_steps = <<>>
    /\ opencv_exit = "max_retries" =>
          /\ pc # "ocv_loop"
          /\ ~cap_open
          /\ retry_count = 0

C14_Witness ==
    /\ opencv_exit = "max_retries"
    /\ opencv_success = "true"
    /\ pc = "cam_next"

\* C15: the cameras have their address resolved in configuration order, each
\* at most once, and when the camera loop ends every configured camera has
\* had its resolution, whatever the outcome of the cameras before it.
C15_EveryCameraResolvedOnce ==
    /\ Len(resolved) <= Len(cameras)
    /\ \A i \in 1..Len(resolved) : resolved[i] = i
    /\ (pc = "cam_next" /\ cam > Len(cameras)) => Len(resolved) = Len(cameras)
    /\ Logged("capture_all_cameras_ret") => Len(resolved) = Len(cameras)

C15_Witness ==
    /\ last_failed = 1
    /\ resolved = <<1, 2>>
    /\ pc = "ocv_loop"

\* C16: in one iteration strategy (a) is called first and once, strategy (b)
\* is called, once and with the same address and name, exactly when (a)
\* returned failure, and never after (a) returned success.
C16_FallbackIffFirstFailed ==
    InIteration =>
        LET first == [fn |-> "opencv", uri |-> rtsp_uri, name |-> camera_name(IterCamera)]
            second == [fn |-> "ffmpeg", uri |-> rtsp_uri, name |-> camera_name(IterCamera)]
        IN
        /\ calls \in {<<>>, <<first>>, <<first, second>>}
        /\ calls = <<>> <=> (pc = "ocv_open" \/ rtsp_uri = "")
        /\ pc = "ffmpeg" => (calls = <<first>> /\ opencv_success = "false")
        /\ calls = <<first, second>> => (opencv_success = "false" /\ pc = "cam_next")
        /\ (pc = "cam_next" /\ opencv_success = "false") => calls = <<first, second>>
        /\ opencv_success = "true" =>
              (calls = <<first>> /\ pc = "cam_next" /\ ffmpeg_success = "none")

C16_Witness ==
    /\ IterationDone
    /\ Len(calls) = 2
    /\ calls[2].fn = "ffmpeg"
    /\ opencv_exit = "max_retries"
    /\ ffmpeg_success = "true"

\* C17: each strategy reports success exactly when it persisted at least one
\* frame for the camera.
C17_SuccessIffPersisted ==
    /\ opencv_success # "none" => (opencv_success = "true" <=> persisted > 0)
    /\ ffmpeg_success # "none" => (ffmpeg_success = "true" <=> ffmpeg_persisted > 0)

\* C18: a camera without an explicit address whose discovery is unavailable,
\* incomplete, faulting or without profile gets the empty address; a camera
\* with the empty address has no strategy called, and the camera loop goes on
\* to the next camera with the run not ended.
C18_UnresolvedCameraSkipped ==
    InIteration =>
        /\ (IterCamera.rtsp_url = "" /\ (~HAS_ONVIF \/ ~IterCamera.onvif)) => rtsp_uri = ""
        /\ discovery_outcome \in {"no_profiles", "fault", "error"} => rtsp_uri = ""
        /\ rtsp_uri = "" =>
              /\ pc = "cam_next"
              /\ cam = resolved[Len(resolved)] + 1
              /\ calls = <<>>
              /\ opencv_success = "none"
              /\ ffmpeg_success = "none"
              /\ exit_code = <<>>

C18_Witness ==
    /\ resolved = <<1, 2>>
    /\ cameras[1].rtsp_url = ""
    /\ ~HAS_ONVIF
    /\ pc = "ocv_loop"

C20_NoImagesFails ==
    image_count = <<0>> =>
        /\ build_result = "false"
        /\ scene_doc = "none"

C20_Witness ==
    /\ image_count = <<0>>
    /\ usd_mode = "pxr"
    /\ builder_point_cloud = "exists"
    /\ build_result = "false"

\* build_scene has been called and has returned
Built == build_result # "none"

\* build_scene has returned and nothing was raised inside it
CleanBuild == Built /\ build_fault = "none"

\* the number of image files build_scene found
ImagesFound == IF image_count = <<>> THEN 0 ELSE image_count[1]

\* the time codes of a timeSamples dictionary are pairwise different
NoRepeatedSample(samples) ==
    \A i, j \in 1..Len(samples) : samples[i] = samples[j] => i = j

\* C21: with a point cloud file that exists and at least one image, the
\* document build_scene produces has exactly one reference to an external
\* asset, no material and no plane.
C21_PointCloudReferenced ==
    (CleanBuild /\ builder_point_cloud = "exists" /\ ImagesFound >= 1) =>
        /\ scene_doc \in {"usd", "text"}
        /\ scene.references = 1
        /\ scene.materials = 0
        /\ scene.geometry \cap {"plane", "ImagePlane"} = {}

\* C22: with a point cloud path that names no file and N >= 1 images,
\* build_scene succeeds and the document has a plane, no reference and
\* exactly N materials.
C22_MissingPointCloudFallsBack ==
    (CleanBuild /\ builder_point_cloud = "missing" /\ ImagesFound >= 1) =>
        /\ build_result = "true"
        /\ scene.references = 0
        /\ scene.geometry \cap {"plane", "ImagePlane"} # {}
        /\ scene.materials = ImagesFound

\* C23: with N >= 1 images and no point cloud, the end time code of the
\* document is N - 1 and its material binding table has the keys 0..N-1.
C23_TimeRangeFromImages ==
    (CleanBuild /\ builder_point_cloud = "None" /\ ImagesFound >= 1) =>
        /\ build_result = "true"
        /\ scene.endTimeCode = ImagesFound - 1
        /\ scene.binding_samples = 0..(ImagesFound - 1)

\* C24: with one image and no point cloud in use, the document's start and
\* end time code coincide, it has one material, and no timeSamples dictionary
\* has two samples for one time code.
C24_SingleImageDocument ==
    (CleanBuild /\ ImagesFound = 1 /\ ~uses_point_cloud(builder_point_cloud)) =>
        /\ build_result = "true"
        /\ scene.startTimeCode = scene.endTimeCode
        /\ scene.materials = 1
        /\ NoRepeatedSample(scene.rotate_samples)

\* C25: the document written without pxr has the time range, the material
\* binding table, the materials and the references of the document pxr builds
\* from the same images and point cloud argument, and build_scene succeeds.
C25_TextEquivalentToPxr ==
    (CleanBuild /\ usd_mode = "text" /\ ImagesFound >= 1) =>
        LET full == pxr_scene(builder_point_cloud, "ok", latest_image[1]) IN
        /\ build_result = "true"
        /\ scene.startTimeCode = full.startTimeCode
        /\ scene.endTimeCode = full.endTimeCode
        /\ scene.binding_samples = full.binding_samples
        /\ scene.materials = full.materials
        /\ scene.references = full.references

\* C26: in a run whose reconstruction succeeded, the scene builder is
\* constructed with the point cloud file the reconstruction left.
C26_PointCloudHandedOver ==
    (pipeline_result = "true" /\ builder_point_cloud # "unset") =>
        builder_point_cloud = "exists"

\* C27: a run given a configuration document that cannot be read or parsed
\* enters no capture, reconstruction or assembly phase and does not exit 0,
\* whatever the skip flags.
C27_MalformedConfigFatal ==
    config_file = "unreadable" =>
        /\ NoneLogged({"capture_all_cameras", "ColmapWrapper", "run_pipeline",
                       "UsdSceneBuilder", "build_scene"})
        /\ Exited => exit_code # <<SuccessExit>>

\* C28: once the workspace directories exist they stay, and the output of
\* every stage that succeeded is in the workspace in every later state of the
\* run: after a later stage failed, after run_pipeline returned, and at exit;
\* a fused.ply that was there before the run is still there.
C28_WorkspaceMonotone ==
    /\ Len(help_log) = 1 => WorkspaceDirectories \subseteq workspace
    /\ \A k \in 1..Len(stage_ok) : stage_ok[k] => stage_output(steps[k]) \in workspace
    /\ fused_preexisting => fused_exists

C28_Witness ==
    /\ Exited
    /\ pipeline_result = "false"
    /\ Len(stage_ok) = 4
    /\ ~stage_ok[4]
    /\ {"database.db", "database.db matches", "sparse/0"} \subseteq workspace

\* C29: every call of run_command made one subprocess invocation; it
\* returned True exactly when the exit status was 0; after a non-zero status
\* or an exception the call returned False to run_pipeline, which returned
\* False to main().
C29_RunCommandClassifies ==
    /\ Len(commands) = Len(stage_ok)
    /\ Len(commands) <= Len(stage_log)
    /\ \A k \in 1..Len(commands) :
          /\ stage_ok[k] <=> commands[k] = "rc0"
          /\ commands[k] # "rc0" =>
                /\ k = Len(commands)
                /\ pipeline_result = "false"
                /\ Logged("run_pipeline_ret")

C29_Witness ==
    /\ Len(commands) = 2
    /\ commands[2] = "exception"
    /\ pipeline_result = "false"
    /\ exit_code = <<FailureExit>>
    /\ "main" \notin kbi_where

\* the exceptions raised while the document is created, filled or saved
PersistenceFaults ==
    (PersistOutcomes \ {"ok"}) \cup (GeometryOutcomes \ {"ok"})

\* C30: when creating the document, creating its geometry or material, or
\* saving it raised, build_scene returns False.
C30_PersistenceFailureReported ==
    build_fault \in PersistenceFaults => build_result = "false"

\* C33: a frame file is written once: over a capture run on all configured
\* cameras (cameras without a name and cameras that fall back to strategy (b)
\* included) no frame file that was written is written again.
C33_FrameWriteOnce ==
    \A key \in FileKeys : disk[key] <= 1

\* C34: when strategy (b) is invoked for a camera, none of the frame files
\* strategy (a) wrote for that camera in this run is still counted or on disk.
C34_FallbackRestartsFromZero ==
    pc = "ffmpeg" =>
        /\ persisted = 0
        /\ CameraFiles(camera_name(cameras[cam])) = {}

\* the exceptions add_point_cloud catches (usd_builder.py:277-280)
PointCloudFaults == GeometryOutcomes \ {"ok"}

\* C35: when add_point_cloud failed, the document build_scene saved and
\* reported as success holds the plane with its material.
C35_PointCloudFailureFallsBack ==
    (build_fault \in PointCloudFaults /\ build_result = "true") =>
        /\ "plane" \in scene.geometry
        /\ scene.materials = 1

\* build_scene completed a document on the branch that uses no point cloud
PlanarBranch ==
    /\ CleanBuild
    /\ build_result = "true"
    /\ (usd_mode = "text" \/ ~uses_point_cloud(builder_point_cloud))

\* the Material prims of the document that carry the given name
DefinedAs(name) == { k \in DOMAIN scene.material_defs : scene.material_defs[k].name = name }

\* C31: in the branch without point cloud the material-assignment table has
\* the keys 0..N-1 for N discovered images; the material of key i is defined
\* exactly once and its texture is image i in sorted order; and every
\* material defined is referenced by the table.
C31_TableBindsImageToTimeCode ==
    PlanarBranch =>
        /\ { e[1] : e \in scene.binding_table } = 0..(ImagesFound - 1)
        /\ \A e \in scene.binding_table :
              /\ Cardinality(DefinedAs(e[2])) = 1
              /\ \A k \in DefinedAs(e[2]) : scene.material_defs[k].texture = e[1]
        /\ \A k \in DOMAIN scene.material_defs :
              \E e \in scene.binding_table : e[2] = scene.material_defs[k].name

\* C32: the image find_latest_image returns is one of the enumerated images
\* and none of them has a later modification time; when build_scene builds
\* the plane with pxr, the only material's texture is that image.
C32_LatestImageTextured ==
    /\ latest_image # <<>> =>
          /\ Len(image_mtime) = ImagesFound
          /\ latest_image[1] \in 0..(ImagesFound - 1)
          /\ \A j \in DOMAIN image_mtime : image_mtime[j] <= image_mtime[latest_image[1] + 1]
    /\ (Built /\ scene_doc = "usd" /\ "plane" \in scene.geometry) =>
          /\ build_result = "true"
          /\ Len(scene.material_defs) = 1
          /\ scene.material_defs[1].texture = latest_image[1]

C32_Witness ==
    /\ build_result = "true"
    /\ usd_mode = "pxr"
    /\ ImagesFound = 3
    /\ image_mtime = <<1, 2, 1>>
    /\ latest_image = <<1>>
    /\ scene.material_defs = <<[name |-> TexturedMaterial, texture |-> 1]>>

\* C36: a stream handle capture_frames_opencv opened is released when the
\* function has been left, whichever way: a handle is open only between the
\* successful open and the end of the read loop.
C36_HandleReleased ==
    cap_open => pc \in {"ocv_opened", "ocv_loop"}

\* C37: with total_frames and frame_interval at least 1 the read loop ends
\* whatever the reads return: inside the loop the successful reads number at
\* most total_frames * frame_interval and the failed reads since the last
\* successful one at most max_retries - 1, and a run that is in the loop
\* leaves it.
C37_ReadLoopTerminates ==
    /\ [](pc = "ocv_loop" =>
            /\ total_frames >= 1 /\ frame_interval >= 1
            /\ frame_count <= total_frames * frame_interval
            /\ retry_count <= max_retries - 1)
    /\ (pc = "ocv_loop") ~> (pc # "ocv_loop")

C37_Witness ==
    /\ pc = "ocv_loop"
    /\ total_frames = MaxLoopFrames
    /\ frame_interval = MaxLoopInterval
    /\ frame_count = total_frames * frame_interval - 1
    /\ read_failed
    /\ retry_count = max_retries - 1

\* C38: in a pipeline run the directory the capture phase persists frames
\* into is the image directory the reconstruction and the assembly phase of
\* that run read, whatever --image-dir and the configuration's output_dir are.
C38_CaptureDirIsImageDir ==
    capture_output_dir # "unset" =>
        /\ colmap_image_dir # "unset" => colmap_image_dir = capture_output_dir
        /\ builder_image_dir # "unset" => builder_image_dir = capture_output_dir
====
